---- MODULE Spec2Model ----
(***************************************************************************)
(* State-machine model of the GitHub autocomplete widget:                  *)
(*   GitHubAutocomplete.tsx  (orchestrator: query, isOpen, visual state)   *)
(*   useDebounce             (debouncedValue, pending timeout)             *)
(*   useGitHubSearch         (useQuery observer over the query cache)      *)
(*   useKeyboardNavigation   (activeIndex, handleKeyDown)                  *)
(*   useClickOutside         (outside pointer events)                      *)
(*   main.tsx                (QueryClient: gcTime, retry)                  *)
(*   error-utils             (discriminateError)                           *)
(*   format                  (sortResultsAlphabetically)                   *)
(*                                                                         *)
(* One action is one browser event (input change, key press, click, timer, *)
(* fetch completion) together with the React render and the effects that   *)
(* follow it, run until no effect changes state any more.                  *)
(***************************************************************************)
EXTENDS Integers, Sequences, FiniteSets, TLC

VARIABLES
    query,           \* useState<string>("")            GitHubAutocomplete.tsx:55
    isOpen,          \* useState<boolean>(false)        GitHubAutocomplete.tsx:56
    activeIndex,     \* useState<number>(-1)            useKeyboardNavigation.ts:46
    debouncedValue,  \* useState<T>(value)              useDebounce:21
    timeoutId,       \* the pending setTimeout of useDebounce and the value it captured
    cache,           \* the QueryClient's query cache, one entry per query key
    emitted,         \* what the last event did to the outside world, in order
    now,             \* the clock of the timers, in ms
    changedAt,       \* when the value given to useDebounce last changed
    timers,          \* the timeouts that are set and neither cleared nor fired
    mounted,         \* the hook has not been torn down
    arg,             \* the arguments of a function called on its own
    ret              \* what that call returned: << >> before the call

\* the state of the widget and of its timers
widget == <<query, isOpen, activeIndex, debouncedValue, timeoutId, cache, emitted,
            now, changedAt, timers, mounted>>

vars == <<widget, arg, ret>>

-----------------------------------------------------------------------------
(* Bounds of the model *)

\* the transport answers with 0..MaxResults items
MaxResults == 2

\* the clock stops at MaxTime ms
MaxTime == 1000

\* the retryer is asked about failure counts 0..MaxFailureCount
MaxFailureCount == 20

\* sortResultsAlphabetically is given lists of up to MaxSortLen items
MaxSortLen == 3

\* the responses of the GitHub API carry items of MaxRawId different ids
MaxRawId == 2

\* a response of the GitHub API carries up to MaxItems items
MaxItems == 2

\* formatResetTime is given reset timestamps 0..MaxResetTime (seconds)
MaxResetTime == 7300

-----------------------------------------------------------------------------
(* Strings are sequences of characters *)

EmptyString == << >>

\* the texts the user can put in the input field
TypedQueries ==
    { EmptyString,
      <<"a", "b">>,
      <<"a", "b", "c">>,
      <<" ", " ", " ">> }

-----------------------------------------------------------------------------
(* Result items and sorting *)

\* transformRepositoryToResult: id is the kind-prefixed numeric id; name is
\* represented by its rank in the collation order used by localeCompare
Item(n) == [id |-> <<"repo", n>>, name |-> n]

NoItem == <<"none", 0>>

\* a.name.localeCompare(b.name, undefined, {sensitivity: "base", numeric: true})
localeCompare(a, b) == IF a < b THEN -1 ELSE IF a > b THEN 1 ELSE 0

\* an insertion that puts x before the elements that compare equal
RECURSIVE InsertSorted_BeforeEqual(_, _)
InsertSorted_BeforeEqual(x, s) ==
    IF s = << >> THEN <<x>>
    ELSE IF localeCompare(Head(s).name, x.name) < 0
         THEN <<Head(s)>> \o InsertSorted_BeforeEqual(x, Tail(s))
         ELSE <<x>> \o s

\* insert x into the sorted sequence s after every element that does not
\* compare greater (Array.prototype.sort is stable)
RECURSIVE InsertSorted(_, _)
InsertSorted(x, s) ==
    IF s = << >> THEN <<x>>
    ELSE IF localeCompare(Head(s).name, x.name) <= 0
         THEN <<Head(s)>> \o InsertSorted(x, Tail(s))
         ELSE <<x>> \o s

RECURSIVE SortFrom(_, _)
SortFrom(rest, acc) ==
    IF rest = << >> THEN acc
    ELSE SortFrom(Tail(rest), InsertSorted(Head(rest), acc))

\* [...results].sort(compare): a new sequence, the argument is not changed
sortResultsAlphabetically(results) == SortFrom(results, << >>)

\* a sort in place: what is returned is the argument itself
sortCall_InPlace(results) ==
    [ results |-> sortResultsAlphabetically(results),
      returned |-> sortResultsAlphabetically(results),
      isNew |-> FALSE ]

\* a call of sortResultsAlphabetically(results): the array behind the
\* argument after the call, the array returned, and whether the returned
\* array is another array than the argument
sortCall(results) ==
    [ results |-> results,
      returned |-> sortResultsAlphabetically(results),
      isNew |-> TRUE ]

\* the bodies searchGitHub can resolve with: n items, delivered in
\* descending name order so that sorting has work to do
ResultList(n) == [i \in 1..n |-> Item(n + 1 - i)]

ResultLists == { ResultList(n) : n \in 0..MaxResults }

-----------------------------------------------------------------------------
(* Errors *)

\* A thrown value: isError is `instanceof Error`, name is error.name,
\* tokens are the substrings of error.message the code looks for, status is
\* the number n of a message "GitHub API error: n" (0 when there is none)
AbortError == [isError |-> TRUE, name |-> "AbortError", tokens |-> {}, status |-> 0]
FailedToFetch == [isError |-> TRUE, name |-> "TypeError", tokens |-> {"Failed to fetch"}, status |-> 0]
HttpError(s) == [isError |-> TRUE, name |-> "Error", tokens |-> {}, status |-> s]
NoError == [isError |-> FALSE, name |-> "", tokens |-> {}, status |-> 0]

\* what searchGitHub can reject with: the 10 s timer of fetchWithTimeout
\* aborts the request (AbortError), fetch itself fails, or a response is not ok
TransportErrors == { AbortError, FailedToFetch, HttpError(403), HttpError(503) }

\* a message is the sequence of the parts it is put together from
Msg(text) == <<text>>

SearchError(type, message) == [type |-> type, message |-> message]

\* the branches on statusCode, client errors first
classifyStatus_ClientFirst(statusCode) ==
    IF statusCode >= 400 /\ statusCode < 500
    THEN SearchError("client", Msg("An error occurred. Please try again."))
    ELSE IF statusCode = 429
    THEN SearchError("rate_limit", Msg("API rate limit exceeded."))
    ELSE IF statusCode >= 500 /\ statusCode < 600
    THEN SearchError("server", Msg("GitHub API is currently unavailable. Please try again later."))
    ELSE SearchError("generic", Msg("An error occurred. Please try again."))

\* the branches on statusCode = parseInt(statusMatch[1], 10), and the
\* fallback they fall through to
classifyStatus(statusCode) ==
    IF statusCode = 429
    THEN SearchError("rate_limit", Msg("API rate limit exceeded."))
    ELSE IF statusCode >= 500 /\ statusCode < 600
    THEN SearchError("server", Msg("GitHub API is currently unavailable. Please try again later."))
    ELSE IF statusCode >= 400 /\ statusCode < 500
    THEN SearchError("client", Msg("An error occurred. Please try again."))
    ELSE SearchError("generic", Msg("An error occurred. Please try again."))

\* discriminateError that looks at navigator.onLine before the name
discriminateError_OfflineFirst(error, onLine) ==
    IF ~error.isError THEN SearchError("generic", Msg("An unknown error occurred."))
    ELSE IF ~onLine
         THEN SearchError("network", Msg("Connection error. Check your internet access."))
    ELSE IF error.name = "AbortError" THEN SearchError("abort", Msg("Request was cancelled."))
    ELSE IF error.tokens \cap {"Failed to fetch", "NetworkError", "Network request failed"} # {}
         THEN SearchError("network", Msg("Connection error. Check your internet access."))
    ELSE IF error.name = "TimeoutError" \/ error.tokens \cap {"timeout", "timed out"} # {}
         THEN SearchError("timeout", Msg("Request timed out."))
    ELSE IF error.status # 0 THEN classifyStatus(error.status)
    ELSE SearchError("generic", Msg("An error occurred. Please try again."))

\* discriminateError, with navigator.onLine as its second argument
discriminateError(error, onLine) ==
    IF ~error.isError THEN SearchError("generic", Msg("An unknown error occurred."))
    ELSE IF error.name = "AbortError" THEN SearchError("abort", Msg("Request was cancelled."))
    ELSE IF ~onLine
         THEN SearchError("network", Msg("Connection error. Check your internet access."))
    ELSE IF error.tokens \cap {"Failed to fetch", "NetworkError", "Network request failed"} # {}
         THEN SearchError("network", Msg("Connection error. Check your internet access."))
    ELSE IF error.name = "TimeoutError" \/ error.tokens \cap {"timeout", "timed out"} # {}
         THEN SearchError("timeout", Msg("Request timed out."))
    ELSE IF error.status # 0 THEN classifyStatus(error.status)
    ELSE SearchError("generic", Msg("An error occurred. Please try again."))

\* formatResetTime that looks at the minutes before the hours
formatResetTime_MinutesFirst(resetTimestamp, nowSeconds) ==
    LET diffSeconds == resetTimestamp - nowSeconds
        minutes == diffSeconds \div 60
        hours == minutes \div 60
    IN IF diffSeconds <= 0 THEN <<"a few seconds">>
       ELSE IF minutes > 0
            THEN IF minutes = 1 THEN <<"1 minute">> ELSE <<minutes, " minutes">>
       ELSE IF hours > 0
            THEN IF hours = 1 THEN <<"1 hour">> ELSE <<hours, " hours">>
       ELSE <<"a few seconds">>

\* formatResetTime, with Math.floor(Date.now() / 1000) as its second argument
formatResetTime(resetTimestamp, nowSeconds) ==
    LET diffSeconds == resetTimestamp - nowSeconds
        minutes == diffSeconds \div 60
        hours == minutes \div 60
    IN IF diffSeconds <= 0 THEN <<"a few seconds">>
       ELSE IF hours > 0
            THEN IF hours = 1 THEN <<"1 hour">> ELSE <<hours, " hours">>
       ELSE IF minutes > 0
            THEN IF minutes = 1 THEN <<"1 minute">> ELSE <<minutes, " minutes">>
       ELSE <<"a few seconds">>

\* getErrorMessage that words an abort like a generic error
getErrorMessage_AbortWorded(type, resetTime, nowSeconds) ==
    CASE type = "network" -> Msg("Connection error. Check your internet access.")
      [] type = "rate_limit" ->
            IF resetTime # 0
            THEN <<"API rate limit exceeded. Please try again in ">>
                    \o formatResetTime(resetTime, nowSeconds) \o <<".">>
            ELSE Msg("API rate limit exceeded. Please try again later.")
      [] type = "timeout" -> Msg("Request timed out.")
      [] type = "server" -> Msg("GitHub API is currently unavailable. Please try again later.")
      [] type = "client" -> Msg("An error occurred. Please try again.")
      [] OTHER -> Msg("An error occurred. Please try again.")

\* getErrorMessage of an error of this type and resetTime (0: none)
getErrorMessage(type, resetTime, nowSeconds) ==
    CASE type = "network" -> Msg("Connection error. Check your internet access.")
      [] type = "rate_limit" ->
            IF resetTime # 0
            THEN <<"API rate limit exceeded. Please try again in ">>
                    \o formatResetTime(resetTime, nowSeconds) \o <<".">>
            ELSE Msg("API rate limit exceeded. Please try again later.")
      [] type = "timeout" -> Msg("Request timed out.")
      [] type = "server" -> Msg("GitHub API is currently unavailable. Please try again later.")
      [] type = "client" -> Msg("An error occurred. Please try again.")
      [] type = "abort" -> Msg("")
      [] OTHER -> Msg("An error occurred. Please try again.")

RECURSIVE Digits(_)
Digits(n) == IF n < 10 THEN <<n>> ELSE Digits(n \div 10) \o <<n % 10>>

\* error.message.includes("429"), for a message "GitHub API error: n"
Includes429(error) ==
    /\ error.status # 0
    /\ LET d == Digits(error.status)
       IN \E i \in 1..(Len(d) - 2) : d[i] = 4 /\ d[i+1] = 2 /\ d[i+2] = 9

\* error.message.match(/4\d{2}/), for a message "GitHub API error: n"
Matches4xx(error) ==
    /\ error.status # 0
    /\ LET d == Digits(error.status)
       IN \E i \in 1..(Len(d) - 2) : d[i] = 4

\* a retry predicate without the rule on 429 and 4xx
retry_NoClientRule(failureCount, error) ==
    IF error.isError /\ error.name = "AbortError" THEN FALSE
    ELSE failureCount < 3

\* a retry predicate that allows one more retry
retry_OneMore(failureCount, error) ==
    IF error.isError /\ error.name = "AbortError" THEN FALSE
    ELSE IF error.isError /\ (Includes429(error) \/ (error.status # 0 /\ Matches4xx(error)))
         THEN FALSE
    ELSE failureCount < 4

\* QueryClient defaultOptions.queries.retry
retry(failureCount, error) ==
    IF error.isError /\ error.name = "AbortError" THEN FALSE
    ELSE IF error.isError /\ (Includes429(error) \/ (error.status # 0 /\ Matches4xx(error)))
         THEN FALSE
    ELSE failureCount < 3

\* a backoff without the cap
retryDelay_NoCap(attemptIndex) == 1000 * 2 ^ attemptIndex

\* QueryClient defaultOptions.queries.retryDelay
retryDelay(attemptIndex) ==
    IF 1000 * 2 ^ attemptIndex < 30000 THEN 1000 * 2 ^ attemptIndex ELSE 30000

-----------------------------------------------------------------------------
(* The query cache (useQuery / QueryClient) *)

\* a key that leaves the query text out: every search shares one entry
queryKey_Shared(q) == <<"github-search">>

\* queryKey: ["github-search", query]
queryKey(q) == <<"github-search", q>>

QueryKeys == { queryKey(q) : q \in TypedQueries }

NoData == [defined |-> FALSE, results |-> << >>]

\* a query that has never fetched: status pending, fetchStatus idle
InitialEntry ==
    [ status           |-> "pending",
      fetchStatus      |-> "idle",
      data             |-> NoData,
      error            |-> NoError,
      failureCount     |-> 0,
      isRetryCancelled |-> FALSE,
      origin           |-> EmptyString ]


-----------------------------------------------------------------------------
(* A view is the state one render of the component works from *)

View(q, open, idx, dv, tid, c) ==
    [ query |-> q, isOpen |-> open, activeIndex |-> idx,
      debouncedValue |-> dv, timeoutId |-> tid, cache |-> c ]

CurrentView == View(query, isOpen, activeIndex, debouncedValue, timeoutId, cache)

NoTimeout == [pending |-> FALSE, value |-> EmptyString]

\* the cache entry the useQuery observer of useGitHubSearch is subscribed to
Observed(v) == v.cache[queryKey(v.debouncedValue)]

\* enabled: enabled && query.length >= 3, with enabled = isOpen and
\* query = debouncedQuery
enabled(v) == v.isOpen /\ Len(v.debouncedValue) >= 3

\* the result of useQuery
isLoading(v) == Observed(v).status = "pending" /\ Observed(v).fetchStatus = "fetching"
isError(v) == Observed(v).status = "error"

\* const error = isError && queryError ? discriminateError(queryError) : null
errorType(v, onLine) ==
    IF isError(v) THEN discriminateError(Observed(v).error, onLine).type ELSE "null"

sortedResults(v) ==
    IF ~Observed(v).data.defined THEN << >>
    ELSE sortResultsAlphabetically(Observed(v).data.results)

itemsCount(v) == Len(sortedResults(v))

showHint(v) == Len(v.query) > 0 /\ Len(v.query) < 3

\* showLoading without the outer query.length >= 3
showLoading_NoLengthGuard(v) ==
    \/ isLoading(v)
    \/ (Len(v.query) >= 3 /\ Len(v.debouncedValue) < 3)

showLoading(v) ==
    /\ Len(v.query) >= 3
    /\ \/ isLoading(v)
       \/ (Len(v.query) >= 3 /\ Len(v.debouncedValue) < 3)

\* showError without error.type !== "abort"
showError_NoAbortFilter(v) == isError(v) /\ Len(v.query) >= 3

\* discriminateError returns "abort" for an AbortError whatever navigator.onLine is
showError(v) ==
    /\ isError(v)
    /\ \A onLine \in BOOLEAN : errorType(v, onLine) # "abort"
    /\ Len(v.query) >= 3

\* showEmpty without !isLoading
showEmpty_NoLoadingGuard(v) ==
    /\ ~isError(v)
    /\ itemsCount(v) = 0
    /\ Len(v.debouncedValue) >= 3 /\ Len(v.query) >= 3

showEmpty(v) ==
    /\ ~isLoading(v) /\ ~isError(v)
    /\ itemsCount(v) = 0
    /\ Len(v.debouncedValue) >= 3 /\ Len(v.query) >= 3

\* showResults without query.length >= 3
showResults_NoQueryGuard(v) ==
    /\ ~isLoading(v) /\ ~isError(v)
    /\ itemsCount(v) > 0
    /\ Len(v.debouncedValue) >= 3

showResults(v) ==
    /\ ~isLoading(v) /\ ~isError(v)
    /\ itemsCount(v) > 0
    /\ Len(v.debouncedValue) >= 3 /\ Len(v.query) >= 3

hasDropdownContent(v) ==
    showHint(v) \/ showLoading(v) \/ showError(v) \/ showEmpty(v) \/ showResults(v)

-----------------------------------------------------------------------------
(* The query observer *)

\* query.isStaleByTime(staleTime): a query without data is stale.  Data is
\* fresh for staleTime = 120000 ms; the model covers the time during which
\* fetched data is fresh
isStaleByTime(e) == ~e.data.defined

\* a fetch that leaves the status and the error of the last failure in place
fetch_KeepsError(e, q) ==
    IF e.fetchStatus # "idle"
    THEN [e EXCEPT !.isRetryCancelled = FALSE]
    ELSE [e EXCEPT !.fetchStatus = "fetching",
                   !.failureCount = 0,
                   !.isRetryCancelled = FALSE,
                   !.origin = q]

\* query.fetch(): a fetch already running is shared (the retryer is told to
\* continue); otherwise queryFn = searchGitHub(query) is called
fetch(e, q) ==
    IF e.fetchStatus # "idle"
    THEN [e EXCEPT !.isRetryCancelled = FALSE]
    ELSE [e EXCEPT !.fetchStatus = "fetching",
                   !.failureCount = 0,
                   !.isRetryCancelled = FALSE,
                   !.origin = q,
                   !.status = IF e.data.defined THEN e.status ELSE "pending",
                   !.error = IF e.data.defined THEN e.error ELSE NoError]

\* query.removeObserver(): the last observer leaves; the signal was not
\* consumed by queryFn, so the request goes on but is no longer retried
removeObserver(e) ==
    IF e.fetchStatus # "idle" THEN [e EXCEPT !.isRetryCancelled = TRUE] ELSE e

\* observer.setOptions on a render: the observer moves to the entry of the
\* new key and fetches it if the key changed or the query was disabled
\* before, the query is enabled now, and the entry is stale
observerSetOptions(prev, cur) ==
    LET oldKey == queryKey(prev.debouncedValue)
        newKey == queryKey(cur.debouncedValue)
        c0     == cur.cache
        c1     == IF oldKey # newKey
                  THEN [c0 EXCEPT ![oldKey] = removeObserver(c0[oldKey])]
                  ELSE c0
        shouldFetchOptionally ==
            /\ oldKey # newKey \/ ~enabled(prev)
            /\ enabled(cur)
            /\ isStaleByTime(c1[newKey])
    IN IF shouldFetchOptionally
       THEN [c1 EXCEPT ![newKey] = fetch(c1[newKey], cur.debouncedValue)]
       ELSE c1

-----------------------------------------------------------------------------
(* Effects *)

\* useDebounce effect, deps [value, delay]: the cleanup clears the old
\* timeout and a new one is set that captures the new value
debounceEffect(prev, cur) ==
    IF cur.query # prev.query
    THEN [pending |-> TRUE, value |-> cur.query]
    ELSE cur.timeoutId

\* the reset effect without the itemsCount === 0 case
resetEffect_CloseOnly(prev, cur) ==
    /\ cur.isOpen # prev.isOpen \/ itemsCount(cur) # itemsCount(prev)
    /\ ~cur.isOpen

\* useKeyboardNavigation effect, deps [isOpen, itemsCount]:
\* if (!isOpen || itemsCount === 0) setActiveIndex(-1)
resetEffect(prev, cur) ==
    /\ cur.isOpen # prev.isOpen \/ itemsCount(cur) # itemsCount(prev)
    /\ ~cur.isOpen \/ itemsCount(cur) = 0

\* "Close dropdown if there's nothing to show", deps [isOpen, query.length]:
\* if (isOpen && query.length === 0) { setIsOpen(false); resetActiveIndex() }
emptyQueryEffect(prev, cur) ==
    /\ cur.isOpen # prev.isOpen \/ Len(cur.query) # Len(prev.query)
    /\ cur.isOpen /\ Len(cur.query) = 0

\* "Auto-close dropdown if there's nothing to display", deps [isOpen,
\* hasDropdownContent, query.length, debouncedQuery.length]
autoCloseEffect(prev, cur) ==
    /\ \/ cur.isOpen # prev.isOpen
       \/ hasDropdownContent(cur) # hasDropdownContent(prev)
       \/ Len(cur.query) # Len(prev.query)
       \/ Len(cur.debouncedValue) # Len(prev.debouncedValue)
    /\ ~(Len(cur.query) >= 3 /\ Len(cur.debouncedValue) < 3)
    /\ cur.isOpen /\ ~hasDropdownContent(cur)

\* One render and the effects it triggers.  prev is what the previous
\* render saw, cur the state this render sees; the result is the state
\* after the effects' state updates.
EffectPass(prev, cur) ==
    LET rendered == [cur EXCEPT !.cache = observerSetOptions(prev, cur)]
    IN [rendered EXCEPT
            !.timeoutId   = debounceEffect(prev, rendered),
            !.activeIndex = IF resetEffect(prev, rendered) \/ emptyQueryEffect(prev, rendered)
                            THEN -1 ELSE cur.activeIndex,
            !.isOpen      = IF emptyQueryEffect(prev, rendered) \/ autoCloseEffect(prev, rendered)
                            THEN FALSE ELSE cur.isOpen]

\* render and run effects until nothing changes (nxt is bound to the value
\* of the pass, so that the pass is computed once)
RECURSIVE Settle(_, _)
Settle(prev, cur) ==
    CHOOSE settled \in { IF nxt = cur THEN cur ELSE Settle(cur, nxt) :
                           nxt \in {EffectPass(prev, cur)} } : TRUE

\* the step of an event whose handler leaves the state v and does out
Commit(v, out) ==
    \E s \in {Settle(CurrentView, v)} :
       /\ query' = s.query
       /\ isOpen' = s.isOpen
       /\ activeIndex' = s.activeIndex
       /\ debouncedValue' = s.debouncedValue
       /\ timeoutId' = s.timeoutId
       /\ cache' = s.cache
       /\ emitted' = out
       /\ UNCHANGED <<now, changedAt, timers, mounted, arg, ret>>

-----------------------------------------------------------------------------
(* Timers of useDebounce.  Spec abstracts from time: it keeps the clock and *)
(* the timer table as they are after mounting and lets timeoutId alone say  *)
(* whether the countdown is pending.  SpecDebounce runs the hook alone      *)
(* against the clock.                                                        *)

\* useDebounce(query, 400)
Delay == 400

\* the clock advances in steps of an eighth of the delay
TimeStep == Delay \div 8

\* setTimeout that ignores the delay
setTimeout_NoDelay(ts, value, t) == ts \cup {[value |-> value, due |-> t]}

\* setTimeout(() => setDebouncedValue(value), delay), called at time t
setTimeout(ts, value, t) == ts \cup {[value |-> value, due |-> t + Delay]}

\* a cleanup that leaves the timeout set
clearTimeout_Forgotten(ts, id) == ts

\* clearTimeout(timeoutId)
clearTimeout(ts, id) == ts \ {id}

\* the timeout set by the effect of the last render
EffectTimer == [value |-> query, due |-> changedAt + Delay]

-----------------------------------------------------------------------------
(* Initial state: the component has mounted with an empty input *)

\* a component whose dropdown starts open
Mounted_Open ==
    /\ query = EmptyString
    /\ isOpen = TRUE
    /\ activeIndex = -1
    /\ debouncedValue = EmptyString
    /\ timeoutId = [pending |-> TRUE, value |-> EmptyString]
    /\ cache = [k \in QueryKeys |-> InitialEntry]
    /\ emitted = << >>
    /\ now = 0
    /\ changedAt = 0
    /\ timers = setTimeout({}, EmptyString, 0)
    /\ mounted = TRUE

Mounted ==
    /\ query = EmptyString
    /\ isOpen = FALSE
    /\ activeIndex = -1
    /\ debouncedValue = EmptyString
    /\ timeoutId = [pending |-> TRUE, value |-> EmptyString]
    /\ cache = [k \in QueryKeys |-> InitialEntry]
    /\ emitted = << >>
    /\ now = 0
    /\ changedAt = 0
    /\ timers = setTimeout({}, EmptyString, 0)
    /\ mounted = TRUE

\* no function is called on its own while the widget runs
Init ==
    /\ Mounted
    /\ arg = << >>
    /\ ret = << >>

-----------------------------------------------------------------------------
(* Things an event does that are visible outside the component *)

Out(op, item, key) == [op |-> op, item |-> item, key |-> key]

PreventDefault == Out("preventDefault", NoItem, EmptyString)
WindowOpen(r) == Out("window.open", r.id, EmptyString)
OnSelect(r) == Out("onSelect", r.id, EmptyString)
AnchorOpen(r) == Out("anchor", r.id, EmptyString)
Resolved(q) == Out("resolved", NoItem, q)
Rejected(q) == Out("rejected", NoItem, q)
InputFocus == Out("focus", NoItem, EmptyString)

-----------------------------------------------------------------------------
(* Handlers of GitHubAutocomplete *)

\* handleResultSelect that leaves the dropdown open
handleResultSelect_NoClose(v, result) ==
    [ view |-> [v EXCEPT !.activeIndex = -1],
      out  |-> <<WindowOpen(result), OnSelect(result)>> ]

\* handleResultSelect: window.open, onSelect, then close and reset
handleResultSelect(v, result) ==
    [ view |-> [v EXCEPT !.isOpen = FALSE, !.activeIndex = -1],
      out  |-> <<WindowOpen(result), OnSelect(result)>> ]

\* onChange of the input
handleInputChange(newQuery) ==
    /\ newQuery \in TypedQueries
    /\ newQuery # query
    /\ Commit([CurrentView EXCEPT !.query = newQuery,
                                  !.isOpen = (Len(newQuery) > 0),
                                  !.activeIndex = -1],
              << >>)

\* a clear button that forgets setQuery("")
handleClear_NoSetQuery(inputHadFocus) ==
    /\ Len(query) > 0
    /\ Commit([CurrentView EXCEPT !.isOpen = ~inputHadFocus,
                                  !.activeIndex = -1],
              <<InputFocus>>)

\* the clear button, rendered while query.length > 0.  inputRef.focus()
\* fires onFocus when the input did not have the focus; that onFocus still
\* sees the query of the last render
handleClear(inputHadFocus) ==
    /\ Len(query) > 0
    /\ Commit([CurrentView EXCEPT !.query = EmptyString,
                                  !.isOpen = ~inputHadFocus,
                                  !.activeIndex = -1],
              <<InputFocus>>)

\* onFocus of the input
onFocus ==
    Commit([CurrentView EXCEPT !.isOpen = IF Len(query) > 0 THEN TRUE ELSE isOpen],
           << >>)

\* onOpenChange of the Popover (trigger click, Escape and outside
\* interaction as seen by the popover itself)
onOpenChange(open) ==
    IF ~open \/ Len(query) = 0
    THEN Commit(CurrentView, << >>)
    ELSE Commit([CurrentView EXCEPT !.isOpen = open], << >>)

\* the pointer enters result row i (0-based): SearchResultItem calls its
\* onMouseEnter prop, which GitHubAutocomplete does not pass
SearchResultItemMouseEnter(i) ==
    /\ isOpen /\ showResults(CurrentView)
    /\ i \in 0..(itemsCount(CurrentView) - 1)
    /\ Commit(CurrentView, << >>)

\* a click whose handler is given the first row, whatever row was clicked
SearchResultItemClick_FirstRow(i) ==
    /\ isOpen /\ showResults(CurrentView)
    /\ i \in 0..(itemsCount(CurrentView) - 1)
    /\ LET result == sortedResults(CurrentView)[1]
           h == handleResultSelect(CurrentView, result)
       IN Commit(h.view, h.out \o <<AnchorOpen(sortedResults(CurrentView)[i + 1])>>)

\* click on result row i (0-based) of the rendered list: handleInteraction
\* calls onClick = handleResultSelect(result); the anchor then follows its href
SearchResultItemClick(i) ==
    /\ isOpen /\ showResults(CurrentView)
    /\ i \in 0..(itemsCount(CurrentView) - 1)
    /\ LET result == sortedResults(CurrentView)[i + 1]
           h == handleResultSelect(CurrentView, result)
       IN Commit(h.view, h.out \o <<AnchorOpen(result)>>)

\* where a mousedown / touchstart can land
Targets ==
    { [name |-> "page",     insideRef |-> FALSE, listbox |-> FALSE, combobox |-> FALSE],
      [name |-> "popover",  insideRef |-> FALSE, listbox |-> TRUE,  combobox |-> FALSE],
      [name |-> "input",    insideRef |-> TRUE,  listbox |-> FALSE, combobox |-> TRUE],
      [name |-> "trigger",  insideRef |-> TRUE,  listbox |-> FALSE, combobox |-> FALSE] }

\* handleClickOutside without the listbox check
handleClickOutside_NoListboxCheck(v, target) ==
    IF target.combobox THEN v
    ELSE [v EXCEPT !.isOpen = FALSE, !.activeIndex = -1]

\* handleClickOutside
handleClickOutside(v, target) ==
    IF target.listbox THEN v
    ELSE IF target.combobox THEN v
    ELSE [v EXCEPT !.isOpen = FALSE, !.activeIndex = -1]

\* the document listener of useClickOutside; the popover content is in a
\* portal, outside dropdownRef, and exists only while the popover is open
useClickOutside(target) ==
    /\ target \in Targets
    /\ target.listbox => isOpen
    /\ IF ~target.insideRef
       THEN Commit(handleClickOutside(CurrentView, target), << >>)
       ELSE Commit(CurrentView, << >>)

-----------------------------------------------------------------------------
(* useKeyboardNavigation *)

Keys == {"ArrowDown", "ArrowUp", "Enter", "Escape", "Tab"}

\* ArrowDown that does not wrap after the last item
ArrowDownIndex_NoWrap(prev, n) == IF prev = -1 THEN 0 ELSE prev + 1

\* setActiveIndex updater of ArrowDown
ArrowDownIndex(prev, n) == IF prev = -1 \/ prev >= n - 1 THEN 0 ELSE prev + 1

\* ArrowUp that leaves the list from its first item
ArrowUpIndex_ToNone(prev, n) == IF prev <= 0 THEN -1 ELSE prev - 1

\* setActiveIndex updater of ArrowUp
ArrowUpIndex(prev, n) == IF prev <= 0 THEN n - 1 ELSE prev - 1

\* onSelect passed by GitHubAutocomplete: sortedResults[index], if there is one
onSelect(v, index) ==
    IF index + 1 \in DOMAIN sortedResults(v)
    THEN handleResultSelect(v, sortedResults(v)[index + 1])
    ELSE [view |-> v, out |-> << >>]

\* handleKeyDown that does not return early on an empty list
handleKeyDown_NoEmptyGuard(key) ==
    /\ key \in Keys
    /\ LET v == CurrentView
           n == itemsCount(v)
       IN IF ~isOpen THEN Commit(v, << >>)
          ELSE CASE key = "ArrowDown" ->
                      Commit([v EXCEPT !.activeIndex = ArrowDownIndex(activeIndex, n)],
                             <<PreventDefault>>)
                 [] key = "ArrowUp" ->
                      Commit([v EXCEPT !.activeIndex = ArrowUpIndex(activeIndex, n)],
                             <<PreventDefault>>)
                 [] key = "Enter" ->
                      LET h == IF activeIndex >= 0 THEN onSelect(v, activeIndex)
                               ELSE IF n > 0 THEN onSelect(v, 0)
                               ELSE [view |-> v, out |-> << >>]
                      IN Commit(h.view, <<PreventDefault>> \o h.out)
                 [] key = "Escape" ->
                      Commit([v EXCEPT !.activeIndex = -1], <<PreventDefault>>)
                 [] OTHER -> Commit(v, << >>)

\* onKeyDown of the input
handleKeyDown(key) ==
    /\ key \in Keys
    /\ LET v == CurrentView
           n == itemsCount(v)
       IN IF ~isOpen \/ n = 0 THEN Commit(v, << >>)
          ELSE CASE key = "ArrowDown" ->
                      Commit([v EXCEPT !.activeIndex = ArrowDownIndex(activeIndex, n)],
                             <<PreventDefault>>)
                 [] key = "ArrowUp" ->
                      Commit([v EXCEPT !.activeIndex = ArrowUpIndex(activeIndex, n)],
                             <<PreventDefault>>)
                 [] key = "Enter" ->
                      LET h == IF activeIndex >= 0 THEN onSelect(v, activeIndex)
                               ELSE IF n > 0 THEN onSelect(v, 0)
                               ELSE [view |-> v, out |-> << >>]
                      IN Commit(h.view, <<PreventDefault>> \o h.out)
                 [] key = "Escape" ->
                      Commit([v EXCEPT !.activeIndex = -1], <<PreventDefault>>)
                 [] OTHER -> Commit(v, << >>)

-----------------------------------------------------------------------------
(* useDebounce *)

\* a timer whose callback does not set the debounced value
debounceTimeout_Dropped ==
    /\ timeoutId.pending
    /\ Commit([CurrentView EXCEPT !.timeoutId = NoTimeout], << >>)

\* the setTimeout callback: setDebouncedValue(value)
debounceTimeout ==
    /\ timeoutId.pending
    /\ Commit([CurrentView EXCEPT !.debouncedValue = timeoutId.value,
                                  !.timeoutId = NoTimeout],
              << >>)

-----------------------------------------------------------------------------
(* Fetches: searchGitHub settles, the retryer decides, the cache is updated *)

\* searchGitHub resolves with results
fetchSuccess(k, results) ==
    /\ k \in QueryKeys /\ results \in ResultLists
    /\ cache[k].fetchStatus = "fetching"
    /\ Commit([CurrentView EXCEPT !.cache[k] =
                  [cache[k] EXCEPT !.status = "success",
                                   !.fetchStatus = "idle",
                                   !.data = [defined |-> TRUE, results |-> results],
                                   !.error = NoError,
                                   !.failureCount = 0,
                                   !.isRetryCancelled = FALSE]],
              <<Resolved(cache[k].origin)>>)

\* searchGitHub rejects: the retryer runs queryFn again after retryDelay
\* if retry(failureCount, error) allows it and retrying was not cancelled;
\* otherwise the error becomes the query's state
fetchFailure(k, error) ==
    /\ k \in QueryKeys /\ error \in TransportErrors
    /\ cache[k].fetchStatus = "fetching"
    /\ IF ~cache[k].isRetryCancelled /\ retry(cache[k].failureCount, error)
       THEN Commit([CurrentView EXCEPT !.cache[k].failureCount = @ + 1], << >>)
       ELSE Commit([CurrentView EXCEPT !.cache[k] =
                       [cache[k] EXCEPT !.status = "error",
                                        !.fetchStatus = "idle",
                                        !.error = error,
                                        !.failureCount = 0,
                                        !.isRetryCancelled = FALSE]],
                   <<Rejected(cache[k].origin)>>)

\* gcTime (300000 ms) has passed since the last observer left k
gcTimeElapsed(k) ==
    /\ k \in QueryKeys
    /\ k # queryKey(debouncedValue)
    /\ cache[k] # InitialEntry
    /\ cache[k].fetchStatus = "idle"
    /\ Commit([CurrentView EXCEPT !.cache[k] = InitialEntry], << >>)

-----------------------------------------------------------------------------

Next ==
    \/ \E q \in TypedQueries : handleInputChange(q)
    \/ \E f \in BOOLEAN : handleClear(f)
    \/ onFocus
    \/ \E o \in BOOLEAN : onOpenChange(o)
    \/ \E i \in 0..(MaxResults - 1) : SearchResultItemMouseEnter(i)
    \/ \E i \in 0..(MaxResults - 1) : SearchResultItemClick(i)
    \/ \E t \in Targets : useClickOutside(t)
    \/ \E key \in Keys : handleKeyDown(key)
    \/ debounceTimeout
    \/ \E k \in QueryKeys, r \in ResultLists : fetchSuccess(k, r)
    \/ \E k \in QueryKeys, e \in TransportErrors : fetchFailure(k, e)
    \/ \E k \in QueryKeys : gcTimeElapsed(k)

Spec == Init /\ [][Next]_vars

\* the transport call made for k resolves or rejects
transportSettles(k) ==
    \/ \E r \in ResultLists : fetchSuccess(k, r)
    \/ \E e \in TransportErrors : fetchFailure(k, e)

\* the widget when the browser fires every timer that stays set and every
\* request is answered or fails (fetchWithTimeout gives each 10 s at most)
SpecLive ==
    /\ Spec
    /\ WF_vars(debounceTimeout)
    /\ \A k \in QueryKeys : WF_vars(transportSettles(k))

-----------------------------------------------------------------------------
(* useDebounce alone, against the clock *)

\* the hook is rendered with a new value: the cleanup of the last effect
\* runs, then the effect
rerender(value) ==
    /\ mounted
    /\ value \in TypedQueries
    /\ value # query
    /\ query' = value
    /\ timeoutId' = debounceEffect(CurrentView, [CurrentView EXCEPT !.query = value])
    /\ timers' = setTimeout(clearTimeout(timers, EffectTimer), value, now)
    /\ changedAt' = now
    /\ emitted' = << >>
    /\ UNCHANGED <<isOpen, activeIndex, debouncedValue, cache, now, mounted, arg, ret>>

\* time passes while no timeout is due
advanceTimers ==
    /\ now < MaxTime
    /\ \A t \in timers : t.due > now
    /\ now' = now + TimeStep
    /\ emitted' = << >>
    /\ UNCHANGED <<query, isOpen, activeIndex, debouncedValue, timeoutId, cache,
                   changedAt, timers, mounted, arg, ret>>

\* a timeout that is due runs its callback: setDebouncedValue(value)
timerFires(t) ==
    /\ t \in timers
    /\ t.due <= now
    /\ debouncedValue' = t.value
    /\ timers' = timers \ {t}
    /\ timeoutId' = IF t = EffectTimer THEN NoTimeout ELSE timeoutId
    /\ emitted' = << >>
    /\ UNCHANGED <<query, isOpen, activeIndex, cache, now, changedAt, mounted, arg, ret>>

\* the hook is torn down: the cleanup of the last effect runs
unmount ==
    /\ mounted
    /\ mounted' = FALSE
    /\ timers' = clearTimeout(timers, EffectTimer)
    /\ timeoutId' = NoTimeout
    /\ emitted' = << >>
    /\ UNCHANGED <<query, isOpen, activeIndex, debouncedValue, cache, now, changedAt,
                   arg, ret>>

NextDebounce ==
    \/ \E value \in TypedQueries : rerender(value)
    \/ advanceTimers
    \/ \E t \in timers : timerFires(t)
    \/ unmount

SpecDebounce == Init /\ [][NextDebounce]_vars

-----------------------------------------------------------------------------
(* discriminateError and getErrorMessage, called on their own *)

ErrorNames == {"Error", "TypeError", "AbortError", "TimeoutError"}

\* the parts of a message the classifier looks for, alone and combined
MessageTokens ==
    { {}, {"Failed to fetch"}, {"NetworkError"}, {"Network request failed"},
      {"timeout"}, {"timed out"}, {"Failed to fetch", "timed out"} }

\* the n of a message "GitHub API error: n"; 0: the message has no such part
Statuses == {0, 200, 399, 400, 404, 429, 499, 500, 503, 599, 600}

\* thrown values: Error objects and other objects with the same fields
ThrownValues ==
    [isError : BOOLEAN, name : ErrorNames, tokens : MessageTokens, status : Statuses]

InitClassifier ==
    /\ Mounted
    /\ arg \in [error : ThrownValues, onLine : BOOLEAN]
    /\ ret = << >>

\* discriminateError(error), then getErrorMessage of what it returned
classify ==
    /\ ret = << >>
    /\ LET classified == discriminateError(arg.error, arg.onLine)
       IN ret' = << [ classified |-> classified,
                     display |-> getErrorMessage(classified.type, 0, 0) ] >>
    /\ UNCHANGED <<widget, arg>>

NextClassifier == classify

SpecClassifier == InitClassifier /\ [][NextClassifier]_vars

-----------------------------------------------------------------------------
(* The retry policy of the QueryClient, called on its own *)

InitRetry ==
    /\ Mounted
    /\ arg \in [failureCount : 0..MaxFailureCount, error : ThrownValues, onLine : BOOLEAN]
    /\ ret = << >>

\* the retryer has caught error after failureCount earlier failures: it
\* asks retry and retryDelay; the error is classified as the hook would
retryerCatch ==
    /\ ret = << >>
    /\ ret' = << [ retry |-> retry(arg.failureCount, arg.error),
                   retryDelay |-> retryDelay(arg.failureCount),
                   type |-> discriminateError(arg.error, arg.onLine).type ] >>
    /\ UNCHANGED <<widget, arg>>

NextRetry == retryerCatch

SpecRetry == InitRetry /\ [][NextRetry]_vars

-----------------------------------------------------------------------------
(* sortResultsAlphabetically, called on its own *)

\* items of three ids whose names have one of two collation ranks: names
\* of the same rank are equal or differ only in case
SortItems == { [id |-> <<"repo", i>>, name |-> r] : i \in 1..3, r \in 1..2 }

SortInputs == UNION { [1..n -> SortItems] : n \in 0..MaxSortLen }

InitSort ==
    /\ Mounted
    /\ arg \in [results : SortInputs]
    /\ ret = << >>

\* sortResultsAlphabetically(results), and the same on what it returned
sortTwice ==
    /\ ret = << >>
    /\ LET first == sortCall(arg.results)
           second == sortCall(first.returned)
       IN /\ arg' = [results |-> first.results]
          /\ ret' = << [ given |-> arg.results,
                         returned |-> first.returned,
                         isNew |-> first.isNew,
                         again |-> second.returned ] >>
    /\ UNCHANGED widget

NextSort == sortTwice

SpecSort == InitSort /\ [][NextSort]_vars

-----------------------------------------------------------------------------
(* searchGitHub, called on its own *)

\* new Error(`GitHub API error: ${status}`) is thrown for these
NonOkStatuses == {403, 503}

\* ms after which a request is answered; the last one is never answered
\* within the timeout
Latencies == {100, 200, 20000}

\* timeout: 10000 of both requests
FetchTimeout == 10000

RawIds == { 10 * n + 1 : n \in 0..(MaxRawId - 1) }

\* items of SearchRepositoriesResponse and of SearchUsersResponse
RawRepositories == [id : RawIds, full_name : {1}]
RawUsers == [id : RawIds, login : {2}]

\* what fetch(url) does: it settles after `after` ms, rejected with error
\* or fulfilled with a Response of this status and body
FetchCall(after, rejected, error, status, items) ==
    [after |-> after, rejected |-> rejected, error |-> error,
     status |-> status, items |-> items]

FetchCalls(raw) ==
    LET bodies == UNION { [1..n -> raw] : n \in 0..MaxItems }
    IN    { FetchCall(t, FALSE, NoError, 200, b) : t \in Latencies, b \in bodies }
     \cup { FetchCall(t, FALSE, NoError, st, << >>) : t \in Latencies, st \in NonOkStatuses }
     \cup { FetchCall(t, TRUE, FailedToFetch, 0, << >>) : t \in Latencies }

\* fetchWithTimeout: the timer aborts the controller whose signal the fetch
\* was given, and the fetch rejects with the AbortError of that signal
fetchWithTimeout(call, timeout) ==
    IF call.after < timeout THEN call
    ELSE FetchCall(timeout, TRUE, AbortError, 0, << >>)

\* Response.ok that also accepts client errors
ResponseOk_ClientErrors(status) == status \in 200..499

\* Response.ok
ResponseOk(status) == status \in 200..299

\* transformUserToResult with the prefix of repositories
transformUserToResult_RepoPrefix(user) ==
    [id |-> <<"repo:">> \o Digits(user.id), name |-> user.login]

\* id: `repo:${repo.id}`, name: repo.full_name
transformRepositoryToResult(repo) ==
    [id |-> <<"repo:">> \o Digits(repo.id), name |-> repo.full_name]

\* id: `user:${user.id}`, name: user.login
transformUserToResult(user) ==
    [id |-> <<"user:">> \o Digits(user.id), name |-> user.login]

\* Promise.all of two promises: rejected with the rejection that comes
\* first (that of the first promise when both come at once)
PromiseAll(a, b) ==
    IF a.rejected /\ b.rejected THEN (IF b.after < a.after THEN b ELSE a)
    ELSE IF a.rejected THEN a
    ELSE IF b.rejected THEN b
    ELSE FetchCall(IF a.after > b.after THEN a.after ELSE b.after,
                   FALSE, NoError, 200, << >>)

\* searchGitHub(query), the two fetches doing what reposCall and usersCall say
searchGitHub(reposCall, usersCall) ==
    LET reposResponse == fetchWithTimeout(reposCall, FetchTimeout)
        usersResponse == fetchWithTimeout(usersCall, FetchTimeout)
        all == PromiseAll(reposResponse, usersResponse)
    IN IF all.rejected
       THEN [rejected |-> TRUE, error |-> all.error, after |-> all.after, results |-> << >>]
       ELSE IF ~ResponseOk(reposResponse.status) \/ ~ResponseOk(usersResponse.status)
       THEN LET errorResponse == IF ~ResponseOk(reposResponse.status)
                                 THEN reposResponse ELSE usersResponse
            IN [rejected |-> TRUE, error |-> HttpError(errorResponse.status),
                after |-> all.after, results |-> << >>]
       ELSE LET repoResults == [i \in DOMAIN reposResponse.items |->
                                  transformRepositoryToResult(reposResponse.items[i])]
                userResults == [i \in DOMAIN usersResponse.items |->
                                  transformUserToResult(usersResponse.items[i])]
            IN [rejected |-> FALSE, error |-> NoError, after |-> all.after,
                results |-> repoResults \o userResults]

InitSearch ==
    /\ Mounted
    /\ arg \in [repos : FetchCalls(RawRepositories), users : FetchCalls(RawUsers),
                onLine : BOOLEAN]
    /\ ret = << >>

\* queryFn of useGitHubSearch awaits searchGitHub; what it rejects with is
\* classified by discriminateError
search ==
    /\ ret = << >>
    /\ LET response == searchGitHub(arg.repos, arg.users)
       IN ret' = << [ response |-> response,
                      type |-> IF response.rejected
                               THEN discriminateError(response.error, arg.onLine).type
                               ELSE "none" ] >>
    /\ UNCHANGED <<widget, arg>>

NextSearch == search

SpecSearch == InitSearch /\ [][NextSearch]_vars

-----------------------------------------------------------------------------
(* formatResetTime, called on its own *)

\* Math.floor(Date.now() / 1000) at the call
NowSeconds == {0, 100}

InitResetTime ==
    /\ Mounted
    /\ arg \in [resetTimestamp : 0..MaxResetTime, nowSeconds : NowSeconds]
    /\ ret = << >>

formatReset ==
    /\ ret = << >>
    /\ ret' = << [ text |-> formatResetTime(arg.resetTimestamp, arg.nowSeconds) ] >>
    /\ UNCHANGED <<widget, arg>>

NextResetTime == formatReset

SpecResetTime == InitResetTime /\ [][NextResetTime]_vars

TypeOK ==
    /\ query \in TypedQueries
    /\ debouncedValue \in TypedQueries
    /\ isOpen \in BOOLEAN
    /\ activeIndex \in -1..MaxResults

-----------------------------------------------------------------------------
(* Properties *)

RECURSIVE trimStart(_)
trimStart(s) ==
    IF s = << >> THEN s
    ELSE IF Head(s) = " " THEN trimStart(Tail(s)) ELSE s

RECURSIVE trimEnd(_)
trimEnd(s) ==
    IF s = << >> THEN s
    ELSE IF s[Len(s)] = " " THEN trimEnd(SubSeq(s, 1, Len(s) - 1)) ELSE s

\* String.prototype.trim
trim(s) == trimEnd(trimStart(s))

\* N: the number of displayed results
N == itemsCount(CurrentView)

NextView == View(query', isOpen', activeIndex', debouncedValue', timeoutId', cache')

\* the items the last event selected (handleResultSelect opens each)
Selected(out) == SelectSeq(out, LAMBDA o : o.op = "window.open")

\* the flags of the last render that are true
VisualFlags ==
    { f \in {"hint", "loading", "error", "empty", "results"} :
        \/ f = "hint"    /\ showHint(CurrentView)
        \/ f = "loading" /\ showLoading(CurrentView)
        \/ f = "error"   /\ showError(CurrentView)
        \/ f = "empty"   /\ showEmpty(CurrentView)
        \/ f = "results" /\ showResults(CurrentView) }

\* C1: in every reachable state -1 <= activeIndex <= N-1, N being the
\* number of displayed results.
C1_IndexInRange == -1 <= activeIndex /\ activeIndex <= N - 1

\* C2: the outcome (results, empty or error) the component sees always
\* belongs to the current debounced query: an outcome of a fetch dispatched
\* for another query text is never what the observer shows, whatever the
\* order in which fetches resolve.
C2_LastDispatchedWins ==
    Observed(CurrentView).status \in {"success", "error"}
        => Observed(CurrentView).origin = debouncedValue

\* C2 witness: the fetch of an earlier query has just resolved while the
\* dropdown shows the outcome of the current debounced query.
C2_Witness ==
    /\ isOpen
    /\ Observed(CurrentView).status = "success"
    /\ \E q \in TypedQueries :
          q # debouncedValue /\ emitted = <<Resolved(q)>>

\* C3: whenever the dropdown is open exactly one of showHint, showLoading,
\* showError, showEmpty, showResults holds.
C3_ExactlyOneVisualState == isOpen => Cardinality(VisualFlags) = 1

\* C3 witness: the dropdown is open on a failed fetch while the query text
\* has moved on, so that hint, loading and error all have to be told apart.
C3_Witness ==
    /\ isOpen
    /\ isError(CurrentView)
    /\ query # debouncedValue

\* C4: a fetch is dispatched only when the query text and the debounced
\* query both have trimmed length >= 3.
C4_DispatchNeedsThreeTrimmed ==
    [][ \A k \in QueryKeys :
          (cache[k].fetchStatus = "idle" /\ cache'[k].fetchStatus = "fetching")
            => (Len(trim(query')) >= 3 /\ Len(trim(debouncedValue')) >= 3) ]_vars

\* C5: whenever the dropdown is open and len(query) >= 3, the visual state
\* is loading if the debounced query differs from the query or a fetch is
\* in flight.
C5_LoadingUntilCaughtUp ==
    ( /\ isOpen
      /\ Len(query) >= 3
      /\ \/ debouncedValue # query
         \/ Observed(CurrentView).fetchStatus = "fetching" )
        => VisualFlags = {"loading"}

\* C6: when the current fetch failed with category abort, the visual
\* state is not error.
C6_AbortNeverShown ==
    ( /\ isError(CurrentView)
      /\ \E onLine \in BOOLEAN : errorType(CurrentView, onLine) = "abort" )
        => ~(isOpen /\ "error" \in VisualFlags)

\* C6 witness: the fetch for the current debounced query has just been
\* rejected with an AbortError while the query has length >= 3.
C6_Witness ==
    /\ emitted = <<Rejected(debouncedValue)>>
    /\ Observed(CurrentView).error = AbortError
    /\ isError(CurrentView)
    /\ Len(query) >= 3

\* C7: Escape pressed while the dropdown is open with at least one result
\* resets the highlight to -1 and closes the dropdown.
C7_EscapeCloses ==
    [][ (isOpen /\ N > 0 /\ handleKeyDown("Escape"))
          => (activeIndex' = -1 /\ ~isOpen') ]_vars

\* C8: Enter pressed while the dropdown is open with N > 0 results selects
\* exactly one item: the one at the highlighted index if that is >= 0,
\* otherwise item 0; with N = 0 nothing is selected.
C8_EnterSelectsHighlighted ==
    [][ handleKeyDown("Enter") =>
          IF isOpen /\ N > 0
          THEN LET index == IF activeIndex >= 0 THEN activeIndex ELSE 0
               IN /\ Len(Selected(emitted')) = 1
                  /\ index + 1 \in DOMAIN sortedResults(CurrentView)
                  /\ Selected(emitted')[1].item = sortedResults(CurrentView)[index + 1].id
          ELSE Selected(emitted') = << >> ]_vars

\* C9: with the dropdown open, N >= 1 and the highlight i in -1..N-1,
\* ArrowDown moves it to 0 if i is -1 or N-1 and to i+1 otherwise; ArrowUp
\* moves it to N-1 if i is -1 or 0 and to i-1 otherwise.
C9_ArrowsWrap ==
    [][ (isOpen /\ N >= 1 /\ activeIndex \in -1..(N - 1)) =>
          /\ handleKeyDown("ArrowDown") =>
                activeIndex' = IF activeIndex = -1 \/ activeIndex = N - 1
                               THEN 0 ELSE activeIndex + 1
          /\ handleKeyDown("ArrowUp") =>
                activeIndex' = IF activeIndex = -1 \/ activeIndex = 0
                               THEN N - 1 ELSE activeIndex - 1 ]_vars

\* C9 witness: an arrow key has just put the highlight on the last of at
\* least two displayed results.
C9_Witness ==
    /\ isOpen
    /\ N >= 2
    /\ activeIndex = N - 1
    /\ emitted = <<PreventDefault>>

\* C10: whenever the dropdown goes from open to closed, or the number of
\* results goes to 0, the highlight becomes -1.
C10_ResetOnCloseOrEmpty ==
    [][ ( \/ isOpen /\ ~isOpen'
          \/ N > 0 /\ itemsCount(NextView) = 0 )
          => activeIndex' = -1 ]_vars

\* C10 witness: a selection has just closed the dropdown (a selection is
\* only possible while it is open) and the highlight is -1.
C10_Witness ==
    /\ ~isOpen
    /\ activeIndex = -1
    /\ Len(Selected(emitted)) = 1

HandledKeys == {"ArrowUp", "ArrowDown", "Enter", "Escape"}

\* C11: handleKeyDown is a no-op whenever the dropdown is closed, N = 0 or
\* the key is not one of ArrowUp, ArrowDown, Enter, Escape: the highlight
\* and the open flag are unchanged, nothing is selected and the default
\* action of the event is not prevented.
C11_IgnoredKeyIsNoOp ==
    [][ \A key \in Keys :
          (handleKeyDown(key) /\ (~isOpen \/ N = 0 \/ key \notin HandledKeys))
            => /\ activeIndex' = activeIndex
               /\ isOpen' = isOpen
               /\ emitted' = << >> ]_vars

\* C11 witness: the dropdown is open on an empty list that is still
\* loading, with the highlight on no item and nothing emitted: the state a
\* key press in that dropdown leaves behind.
C11_Witness ==
    /\ isOpen
    /\ N = 0
    /\ isLoading(CurrentView)
    /\ activeIndex = -1
    /\ emitted = << >>

\* C12: after any selection commit (Enter on a result or a click on a
\* result row) the dropdown is closed and the highlight is -1, and the
\* query text is unchanged.
C12_SelectionClosesKeepsQuery ==
    [][ Selected(emitted') # << >>
          => (~isOpen' /\ activeIndex' = -1 /\ query' = query) ]_vars

\* C12 witness: Enter has just selected a result: the dropdown is closed,
\* the highlight is -1 and the query text is still there.
C12_Witness ==
    /\ Len(emitted) = 3
    /\ emitted[1] = PreventDefault
    /\ Selected(emitted) # << >>
    /\ ~isOpen
    /\ activeIndex = -1
    /\ Len(query) >= 3

\* what handleResultSelect did, in order
SelectionCalls(out) ==
    SelectSeq(out, LAMBDA o : o.op \in {"window.open", "onSelect"})

\* C13: on a selection commit the item's URL is opened, then onSelect is
\* invoked exactly once with the selected item, and only then is the
\* dropdown closed; onSelect is never invoked without a selection and never
\* with another item.
C13_OpenThenOnSelectThenClose ==
    [][ LET calls == SelectionCalls(emitted')
        IN \/ calls = << >>
           \/ /\ isOpen
              /\ ~isOpen'
              /\ \E i \in DOMAIN sortedResults(CurrentView) :
                    LET result == sortedResults(CurrentView)[i]
                    IN /\ calls = <<WindowOpen(result), OnSelect(result)>>
                       /\ \A j \in DOMAIN emitted' :
                             emitted'[j].op = "anchor" => emitted'[j] = AnchorOpen(result) ]_vars

\* C13 witness: a click on the second row has just opened that row's URL
\* and called onSelect with it, and the dropdown is closed.
C13_Witness ==
    /\ ~isOpen
    /\ Len(emitted) = 3
    /\ emitted[3].op = "anchor"
    /\ sortedResults(CurrentView) # << >>
    /\ emitted[3].item = sortedResults(CurrentView)[Len(sortedResults(CurrentView))].id
    /\ Len(sortedResults(CurrentView)) >= 2

C15_OutsideClickCloses ==
    [][ \A t \in Targets :
          useClickOutside(t) =>
            IF t.name = "page"
            THEN ~isOpen' /\ activeIndex' = -1
            ELSE isOpen' = isOpen /\ activeIndex' = activeIndex ]_vars

\* C15 witness: the dropdown is closed over results that are still there,
\* with nothing selected: it was closed from outside.
C15_Witness ==
    /\ ~isOpen
    /\ showResults(CurrentView)
    /\ activeIndex = -1
    /\ emitted = << >>

\* C18: hovering result row i sets the highlight to i.
C18_HoverHighlights ==
    [][ \A i \in 0..(MaxResults - 1) :
          SearchResultItemMouseEnter(i) => activeIndex' = i ]_vars

\* C19: whenever the dropdown is open and 0 < len(query) < 3 the visual
\* state is hint, whatever the debounced query and the outcome held for it;
\* whenever the query is empty the dropdown is closed.
C19_HintBelowThree ==
    /\ (isOpen /\ Len(query) > 0 /\ Len(query) < 3) => VisualFlags = {"hint"}
    /\ Len(query) = 0 => ~isOpen

\* C19 witness: the dropdown is open on a query of two characters while
\* the debounced query still has three and results are held for it.
C19_Witness ==
    /\ isOpen
    /\ Len(query) = 2
    /\ Len(debouncedValue) >= 3
    /\ Observed(CurrentView).status = "success"
    /\ itemsCount(CurrentView) > 0

\* C20: the empty state is displayed only when the fetch for the current
\* debounced query (of length >= 3) has succeeded with zero results; it is
\* never displayed while no fetch for that key has completed successfully.
C20_EmptyOnlyAfterSuccess ==
    (isOpen /\ "empty" \in VisualFlags)
        => /\ Len(debouncedValue) >= 3
           /\ Observed(CurrentView).status = "success"
           /\ Observed(CurrentView).origin = debouncedValue
           /\ Observed(CurrentView).data = [defined |-> TRUE, results |-> << >>]

\* C20 witness: the fetch for the debounced query has just resolved with
\* no results and the open dropdown shows the empty state.
C20_Witness ==
    /\ isOpen
    /\ VisualFlags = {"empty"}
    /\ emitted = <<Resolved(debouncedValue)>>

\* C16: during a burst of value changes less than one delay apart the
\* debounced value does not change; it is updated exactly one delay after
\* the last change, to the last value, and intermediate values are never
\* published (changes at t = 0, 50, 100 with delay 400: one update, at
\* t = 500, to the value set at t = 100).
C16_OneUpdateAfterBurst ==
    [][ /\ debouncedValue' # debouncedValue
            => (now = changedAt + Delay /\ debouncedValue' = query)
        /\ (mounted' /\ now' > changedAt' + Delay) => debouncedValue' = query' ]_vars

\* C16 witness: the value last changed at t = 100 and at t = 500 the
\* debounced value has that value and no timeout is left.
C16_Witness ==
    /\ mounted
    /\ changedAt = 2 * TimeStep
    /\ now = 2 * TimeStep + Delay
    /\ query # EmptyString
    /\ debouncedValue = query
    /\ timers = {}

\* C17: at most one debounce timer is pending at any time; after teardown
\* no timer is left to fire and the debounced value is never updated.
C17_TimerCancelled ==
    [][ /\ Cardinality(timers') <= 1
        /\ ~mounted' => timers' = {}
        /\ ~mounted => debouncedValue' = debouncedValue ]_vars

\* C17 witness: the hook was torn down while its timeout was pending, the
\* time of that timeout has passed and the debounced value is not the
\* last value.
C17_Witness ==
    /\ ~mounted
    /\ now > changedAt + Delay
    /\ debouncedValue # query
    /\ timers = {}

Attempt(k) == cache[k].failureCount + 1

\* C27 as stated: a fetch is attempted at most 3 times in total, never a
\* 4th time.
C27_AtMostThreeAttempts ==
    \A k \in QueryKeys : cache[k].fetchStatus = "fetching" => Attempt(k) <= 3

\* C27 amended: a fetch that keeps failing with a retryable failure is
\* retried 3 times, 4 attempts in total, before its failure is surfaced as
\* the outcome; it is never attempted a 5th time.
C27_AtMostFourAttempts ==
    [][ \A k \in QueryKeys :
          /\ cache'[k].fetchStatus = "fetching" => cache'[k].failureCount + 1 <= 4
          /\ ( /\ cache[k].fetchStatus = "fetching"
               /\ ~cache[k].isRetryCancelled
               /\ cache'[k].status = "error"
               /\ cache'[k].fetchStatus = "idle"
               /\ cache'[k].error \in {FailedToFetch, HttpError(503)} )
              => Attempt(k) = 4 ]_vars

\* C27 witness: the 4th attempt of a fetch is in flight and may be retried
\* no more.
C27_Witness ==
    \E k \in QueryKeys :
        /\ cache[k].fetchStatus = "fetching"
        /\ ~cache[k].isRetryCancelled
        /\ Attempt(k) = 4
        /\ \A e \in TransportErrors : ~retry(cache[k].failureCount, e)

Categories == {"network", "rate_limit", "timeout", "server", "client", "abort", "generic"}

HasNetworkSignature(error) ==
    error.tokens \cap {"Failed to fetch", "NetworkError", "Network request failed"} # {}

HasTimeoutSignature(error) ==
    error.name = "TimeoutError" \/ error.tokens \cap {"timeout", "timed out"} # {}

\* C22: discriminateError is the first-match decision list: not an Error
\* object -> generic; else name AbortError -> abort; else offline ->
\* network; else network-failure signature -> network; else timeout name
\* or message -> timeout; else embedded status -> category by status; else
\* generic.  Abort wins over offline, offline over any status, a timeout
\* message over an embedded status; every input yields exactly one of the
\* seven categories.
C22_FirstMatchDecisionList ==
    ret # << >> =>
        LET e == arg.error
            type == ret[1].classified.type
        IN /\ type \in Categories
           /\ ~e.isError => type = "generic"
           /\ (e.isError /\ e.name = "AbortError") => type = "abort"
           /\ (e.isError /\ e.name # "AbortError" /\ ~arg.onLine) => type = "network"
           /\ (e.isError /\ e.name # "AbortError" /\ arg.onLine /\ HasNetworkSignature(e))
                 => type = "network"
           /\ ( /\ e.isError /\ e.name # "AbortError" /\ arg.onLine
                /\ ~HasNetworkSignature(e) /\ HasTimeoutSignature(e) )
                 => type = "timeout"
           /\ ( /\ e.isError /\ e.name # "AbortError" /\ arg.onLine
                /\ ~HasNetworkSignature(e) /\ ~HasTimeoutSignature(e) )
                 => /\ e.status # 0 => type \in {"rate_limit", "server", "client", "generic"}
                    /\ e.status = 0 => type = "generic"

\* C22 witness: an AbortError that also carries a timeout message and a
\* status has been classified while offline.
C22_Witness ==
    /\ ret # << >>
    /\ arg.error.isError
    /\ arg.error.name = "AbortError"
    /\ ~arg.onLine
    /\ arg.error.tokens = {"timed out"}
    /\ arg.error.status = 503
    /\ ret[1].classified.type = "abort"

\* the error matches no rule before the one on the embedded status
ReachesStatusRule ==
    /\ arg.error.isError /\ arg.error.name # "AbortError" /\ arg.onLine
    /\ ~HasNetworkSignature(arg.error) /\ ~HasTimeoutSignature(arg.error)
    /\ arg.error.status # 0

\* C23: for an error whose message carries an HTTP status s and which
\* matches no earlier rule: s = 429 gives rate_limit, 500 <= s <= 599
\* server, 400 <= s <= 499 with s # 429 client, any other s generic.
C23_CategoryByStatus ==
    (ret # << >> /\ ReachesStatusRule) =>
        LET s == arg.error.status
            type == ret[1].classified.type
        IN /\ s = 429 => type = "rate_limit"
           /\ (500 <= s /\ s <= 599) => type = "server"
           /\ (400 <= s /\ s <= 499 /\ s # 429) => type = "client"
           /\ (s < 400 \/ s > 599) => type = "generic"

\* C23 witness: "GitHub API error: 429" has been classified as rate_limit.
C23_Witness ==
    /\ ret # << >>
    /\ ReachesStatusRule
    /\ arg.error.status = 429
    /\ ret[1].classified.type = "rate_limit"

C25_OneMessagePerCategory ==
    (ret # << >> /\ ret[1].classified.type # "rate_limit")
        => ret[1].classified.message = ret[1].display

\* C26: the retry predicate never retries an abort or a 4xx outcome (429
\* included): for every failure count it returns false for an AbortError
\* and for an error carrying a 4xx status, so a failure classified as
\* abort, client or rate_limit is never retried.
C26_NoRetryOnAbortOr4xx ==
    ret # << >> =>
        /\ (arg.error.isError /\ arg.error.name = "AbortError") => ~ret[1].retry
        /\ ( /\ arg.error.isError
             /\ 400 <= arg.error.status /\ arg.error.status <= 499 ) => ~ret[1].retry
        /\ ret[1].type \in {"abort", "client", "rate_limit"} => ~ret[1].retry

\* C26 witness: the retryer has asked about a first failure with
\* "GitHub API error: 404", classified as client.
C26_Witness ==
    /\ ret # << >>
    /\ arg.failureCount = 0
    /\ arg.error.status = 404
    /\ ret[1].type = "client"
    /\ ~ret[1].retry

\* C28: the delay before retry number n is min(1000 * 2^n, 30000) ms:
\* 1 s at n = 0, doubling, non-decreasing and never above 30 s.
C28_BackoffDoublesCapped ==
    ret # << >> =>
        LET n == arg.failureCount
            d == ret[1].retryDelay
        IN /\ d = CASE n = 0 -> 1000
                     [] n = 1 -> 2000
                     [] n = 2 -> 4000
                     [] n = 3 -> 8000
                     [] n = 4 -> 16000
                     [] OTHER -> 30000
           /\ d <= 30000
           /\ n > 0 => (retryDelay(n - 1) <= d /\ (d = 2 * retryDelay(n - 1) \/ d = 30000))

\* C28 witness: the delay before retry number 5, the first that the cap
\* cuts, has been computed.
C28_Witness ==
    /\ ret # << >>
    /\ arg.failureCount = 5
    /\ ret[1].retryDelay = 30000

IsPermutation(a, b) ==
    /\ Len(a) = Len(b)
    /\ \A x \in SortItems :
          Cardinality({i \in DOMAIN a : a[i] = x}) = Cardinality({i \in DOMAIN b : b[i] = x})

\* C29: sortResultsAlphabetically is idempotent: for every list x,
\* lists with names that are equal or differ only in case included,
\* sort(sort(x)) equals sort(x) element for element.
C29_SortIdempotent ==
    ret # << >> => ret[1].again = ret[1].returned

\* C29 witness: a list that was not in order and has two items whose
\* names compare equal has been sorted twice.
C29_Witness ==
    /\ ret # << >>
    /\ ret[1].returned # ret[1].given
    /\ \E i, j \in DOMAIN ret[1].given :
          /\ i # j
          /\ ret[1].given[i].id # ret[1].given[j].id
          /\ ret[1].given[i].name = ret[1].given[j].name

\* C30: sortResultsAlphabetically does not mutate its input: after the
\* call the input holds the same items in the same order, and what is
\* returned is a new sequence that is a permutation of the input.
C30_SortLeavesInput ==
    ret # << >> =>
        /\ arg.results = ret[1].given
        /\ ret[1].isNew
        /\ IsPermutation(ret[1].returned, ret[1].given)

\* C30 witness: a list given in descending order has been sorted and is
\* still in descending order.
C30_Witness ==
    /\ ret # << >>
    /\ Len(arg.results) >= 2
    /\ \A i \in 1..(Len(arg.results) - 1) : arg.results[i].name > arg.results[i + 1].name
    /\ ret[1].returned # arg.results

\* C32: arrow keys move the highlight and Enter selects only while the
\* results are what the dropdown displays; a key press in any other visual
\* state (hint, loading, error, empty, closed) selects nothing and leaves
\* the highlight at -1.
C32_KeysActOnlyOnResults ==
    [][ \A key \in Keys :
          (handleKeyDown(key) /\ activeIndex = -1 /\ "results" \notin VisualFlags) =>
              /\ Selected(emitted') = << >>
              /\ activeIndex' = -1 ]_vars

Openings(out) ==
    SelectSeq(out, LAMBDA o : o.op \in {"window.open", "anchor"})

\* C37: each selection commit, by Enter or by click, opens the selected
\* item's URL exactly once.
C37_UrlOpenedOnce ==
    [][ Selected(emitted') # << >> => Len(Openings(emitted')) = 1 ]_vars

\* the index after count presses of ArrowDown on a list of n items
RECURSIVE ArrowDownTimes(_, _, _)
ArrowDownTimes(i, n, count) ==
    IF count = 0 THEN i ELSE ArrowDownTimes(ArrowDownIndex(i, n), n, count - 1)

\* C38: with the dropdown open on N >= 1 items and the highlight on i in
\* 0..N-1, an arrow press keeps the highlight in 0..N-1 (never back to -1)
\* and leaves the list and the dropdown as they were, the opposite arrow
\* pressed next returns the highlight to i, and N presses of ArrowDown
\* return it to i.
C38_ArrowRoundTrips ==
    [][ (isOpen /\ N >= 1 /\ activeIndex \in 0..(N - 1)) =>
          /\ ArrowDownTimes(activeIndex, N, N) = activeIndex
          /\ handleKeyDown("ArrowDown") =>
                /\ isOpen' /\ itemsCount(NextView) = N
                /\ activeIndex' \in 0..(N - 1)
                /\ ArrowUpIndex(activeIndex', N) = activeIndex
          /\ handleKeyDown("ArrowUp") =>
                /\ isOpen' /\ itemsCount(NextView) = N
                /\ activeIndex' \in 0..(N - 1)
                /\ ArrowDownIndex(activeIndex', N) = activeIndex ]_vars

\* C38 witness: ArrowUp has just wrapped the highlight from the first to
\* the last of at least two items while the query is being edited.
C38_Witness ==
    /\ isOpen
    /\ N >= 2
    /\ activeIndex = N - 1
    /\ emitted = <<PreventDefault>>
    /\ query # debouncedValue

\* the ids of the items of a sequence are pairwise distinct
DistinctIds(items) ==
    \A i, j \in DOMAIN items : items[i].id = items[j].id => i = j

\* C31: the ids of the items of a result list are pairwise distinct,
\* provided the repository ids are distinct among the repositories and the
\* user ids among the users: repository n gets the id repo:n and user n the
\* id user:n, whatever else the response holds and whenever it is fetched.
C31_ResultIdsDistinct ==
    (ret # << >> /\ ~ret[1].response.rejected) =>
        LET results == ret[1].response.results
            repos == arg.repos.items
            users == arg.users.items
        IN /\ Len(results) = Len(repos) + Len(users)
           /\ \A i \in DOMAIN repos :
                 results[i].id = <<"repo:">> \o Digits(repos[i].id)
           /\ \A i \in DOMAIN users :
                 results[Len(repos) + i].id = <<"user:">> \o Digits(users[i].id)
           /\ (DistinctIds(repos) /\ DistinctIds(users)) => DistinctIds(results)

\* C31 witness: a result list holds a repository and a user of the same
\* numeric id, and another repository.
C31_Witness ==
    /\ ret # << >>
    /\ ~ret[1].response.rejected
    /\ DistinctIds(arg.repos.items) /\ DistinctIds(arg.users.items)
    /\ Len(arg.repos.items) = 2
    /\ \E i \in DOMAIN arg.repos.items, j \in DOMAIN arg.users.items :
          arg.repos.items[i].id = arg.users.items[j].id

\* the search was rejected by the timer of fetchWithTimeout
TimedOut ==
    /\ ret # << >>
    /\ ret[1].response.rejected
    /\ ret[1].response.after = FetchTimeout

\* C34: a fetch cancelled by the 10 s timer of fetchWithTimeout surfaces as
\* the category timeout (which is rendered as the error state) and is never
\* classified as abort.
C34_TimeoutIsTimeout ==
    TimedOut => ret[1].type = "timeout"

\* C35: searchGitHub fails as a whole when either request rejects or is
\* answered with a non-ok status: it rejects with what the first rejected
\* request rejected with, or with "GitHub API error: <status>" of the
\* repositories response if that is not ok and of the users response
\* otherwise; it returns results only when both responses are ok, and then
\* those of both.
C35_FailsAsAWhole ==
    ret # << >> =>
        LET response == ret[1].response
            repos == arg.repos
            users == arg.users
            answered(c) == ~c.rejected /\ c.after < FetchTimeout
            good(c) == answered(c) /\ c.status \in 200..299
        IN /\ response.rejected <=> ~(good(repos) /\ good(users))
           /\ response.rejected => response.results = << >>
           /\ ~response.rejected =>
                 Len(response.results) = Len(repos.items) + Len(users.items)
           /\ (answered(repos) /\ answered(users) /\ ~good(repos)) =>
                 response.error = HttpError(repos.status)
           /\ (answered(repos) /\ answered(users) /\ good(repos) /\ ~good(users)) =>
                 response.error = HttpError(users.status)

\* C35 witness: the repositories request was answered with items and the
\* users request with a non-ok status, and the search was rejected with it.
C35_Witness ==
    /\ ret # << >>
    /\ arg.repos.status = 200 /\ ~arg.repos.rejected /\ arg.repos.after < FetchTimeout
    /\ arg.repos.items # << >>
    /\ arg.users.status = 503 /\ arg.users.after < FetchTimeout
    /\ ret[1].response.error = HttpError(503)

\* C39: with d = reset - now, formatResetTime gives "a few seconds" when
\* d < 60 (d <= 0 included), k hours with k = floor(d / 3600) when
\* d >= 3600 and m minutes with m = floor(d / 60) otherwise, the unit in
\* the singular exactly when the count is 1.
C39_ResetTimeWording ==
    ret # << >> =>
        LET d == arg.resetTimestamp - arg.nowSeconds
            k == d \div 3600
            m == d \div 60
        IN ret[1].text =
             IF d < 60 THEN <<"a few seconds">>
             ELSE IF d >= 3600
                  THEN (IF k = 1 THEN <<"1 hour">> ELSE <<k, " hours">>)
             ELSE (IF m = 1 THEN <<"1 minute">> ELSE <<m, " minutes">>)

\* C39 witness: a reset two hours and a minute away has been worded.
C39_Witness ==
    /\ ret # << >>
    /\ arg.resetTimestamp - arg.nowSeconds = 7260
    /\ ret[1].text = <<2, " hours">>

\* the loading state is displayed for a query of three characters or more
Loading == isOpen /\ Len(query) >= 3 /\ "loading" \in VisualFlags

\* C36: if the user stops editing the query, then as long as the dropdown
\* is open on a query of 3 characters or more the loading state is left
\* again and again for results, empty, error or the closed dropdown: the
\* widget does not stay in loading for ever.
C36_LoadingEnds ==
    <>[][query' = query]_vars =>
        []<>( \/ ~isOpen
              \/ Len(query) < 3
              \/ /\ "loading" \notin VisualFlags
                 /\ VisualFlags \cap {"results", "empty", "error"} # {} )

\* C36 witness: the last retry of the request for the query on display has
\* failed and the dropdown, still open, has gone from loading to the error
\* state.
C36_Witness ==
    /\ isOpen
    /\ Len(query) >= 3
    /\ query = debouncedValue
    /\ Len(emitted) = 1 /\ emitted[1].op = "rejected"
    /\ ~Loading
    /\ "error" \in VisualFlags

====
